---- MODULE Spec2Model ----
(***************************************************************************)
(* Room lifecycle and membership index of the zvon relay (src/server.js,   *)
(* the server defined at lines 284-581; lines 1-283 hold an earlier        *)
(* version of the same definitions).  Every socket.io event handler and    *)
(* every timer callback runs to completion on the single event loop, so    *)
(* each is one atomic action.  An exception thrown by a handler is caught  *)
(* nowhere and ends the process.                                           *)
(*                                                                         *)
(* Fields that no code path reads are left out of the state: a room's      *)
(* createdAt, a message's id and timestamp.                                *)
(***************************************************************************)
EXTENDS Integers, Sequences, FiniteSets, TLC

\* ------------------------------------------------------------- input sets
UserIds == {"u1", "u2"}
RoomIds == {"AA00", "AA01"}
Sockets == {"s1", "s2"}
Texts   == {"hi", "yo"}

\* ------------------------------------------------------- program constants
ROOM_EXPIRATION_MINUTES == 5
MinuteMs == 60000
TTL == ROOM_EXPIRATION_MINUTES * 60 * 1000

\* ------------------------------------------------------------------ bounds
TicksPerTTL == 2   \* the clock advances in steps of TTL / TicksPerTTL milliseconds
MaxTicks    == 2   \* client events are accepted during the first MaxTicks steps
MaxEvents   == 3   \* number of client events processed in one run of Spec
DeepEvents  == 4   \* number of client events processed in one run of DeepSpec

TickMs  == TTL \div TicksPerTTL
MaxTime == MaxTicks * TickMs

VARIABLES
  rooms,        \* Map roomId -> room object (a function whose DOMAIN is the live ids)
  userRooms,    \* Map userId -> Set(roomId), kept in insertion order as a sequence
  timers,       \* handle -> pending timeout [roomId, deadline] or NoTimer
  now,          \* Date.now()
  sockUser,     \* socket.userId of each connected socket
  joined,       \* the socket.io rooms each socket has joined with socket.join
  crashed,      \* an event handler threw: the process has exited
  ev,           \* the event processed by the last step
  out,          \* the emissions of the last step, in order
  budget,       \* number of client events the run still takes
  lastActivity, \* history: time of the last creation / join_room / send_message per live id
  subscribers   \* history: the sockets that ran a successful join_room on an id since it became live

vars == <<rooms, userRooms, timers, now, sockUser, joined, crashed, ev, out, budget,
          lastActivity, subscribers>>

Max(a, b) == IF a >= b THEN a ELSE b

NoTimer == [pending |-> FALSE]
NoUser  == "none"
\* every client event arms at most one timeout
Handles == 1..(Max(MaxEvents, DeepEvents) + 1)

\* ------------------------------------------------------------------ helpers
Range(s) == {s[i] : i \in 1..Len(s)}

SetAdd(s, x) == IF x \in Range(s) THEN s ELSE Append(s, x)

SetDelete(s, x) == SelectSeq(s, LAMBDA y : y # x)

MapDelete(m, k) == [x \in (DOMAIN m) \ {k} |-> m[x]]

MapSet(m, k, v) == [x \in (DOMAIN m) \cup {k} |-> IF x = k THEN v ELSE m[x]]

\* Math.ceil(a / b) for b > 0 and any integer a
Ceil(a, b) == -((-a) \div b)

PendingOf(tm) == {h \in Handles : tm[h].pending}

\* setTimeout(cb, delay) returns a new Timeout object, distinct from every
\* handle that is pending in tm
FreshHandle(tm) ==
  CHOOSE h \in Handles \ PendingOf(tm) : \A g \in Handles \ PendingOf(tm) : h <= g

setTimeout(tm, h, roomId, delay) ==
  [tm EXCEPT ![h] = [pending |-> TRUE, roomId |-> roomId, deadline |-> now + delay]]

clearTimeout(tm, h) == [tm EXCEPT ![h] = NoTimer]

\* io.to(name): the connected sockets that joined the socket.io room `name`
\* (every socket is in the room named by its own id)
To(name) == {s \in Sockets : name \in joined[s] \/ name = s}

Emit(event, to, payload) == [event |-> event, to |-> to, payload |-> payload]

\* the program state the room functions read and write
State == [rooms |-> rooms, userRooms |-> userRooms, timers |-> timers]

\* if (!userRooms.has(userId)) userRooms.set(userId, new Set());
\* userRooms.get(userId).add(roomId);
addMembership(ur, userId, roomId) ==
  MapSet(ur, userId, SetAdd(IF userId \in DOMAIN ur THEN ur[userId] ELSE << >>, roomId))

\* userIds.forEach(userId => ...) of createRoom
RECURSIVE addMemberships(_, _, _)
addMemberships(ur, userIds, roomId) ==
  IF userIds = << >> THEN ur
  ELSE addMemberships(addMembership(ur, Head(userIds), roomId), Tail(userIds), roomId)

\* createRoom(roomId, userIds): rooms.set replaces whatever is stored under roomId
createRoom(st, roomId, userIds) ==
  LET h    == FreshHandle(st.timers)
      room == [id        |-> roomId,
               users     |-> Range(userIds),
               messages  |-> << >>,
               expiresAt |-> now + TTL,
               timer     |-> h]
  IN  [rooms     |-> MapSet(st.rooms, roomId, room),
       userRooms |-> addMemberships(st.userRooms, userIds, roomId),
       timers    |-> setTimeout(st.timers, h, roomId, TTL)]

\* room.users.forEach(userId => ...) of deleteRoom
removeMemberships(ur, users, roomId) ==
  LET after == [u \in DOMAIN ur |->
                  IF u \in users THEN SetDelete(ur[u], roomId) ELSE ur[u]]
      kept  == {u \in DOMAIN ur : ~(u \in users /\ after[u] = << >>)}
  IN  [u \in kept |-> after[u]]

\* deleteRoom(roomId); emits holds what it sends
deleteRoom(st, roomId) ==
  IF roomId \notin DOMAIN st.rooms
  THEN [rooms |-> st.rooms, userRooms |-> st.userRooms, timers |-> st.timers,
        emits |-> << >>]
  ELSE LET room == st.rooms[roomId]
       IN  [rooms     |-> MapDelete(st.rooms, roomId),
            userRooms |-> removeMemberships(st.userRooms, room.users, roomId),
            timers    |-> clearTimeout(st.timers, room.timer),
            emits     |-> << Emit("room_deleted", To(roomId), roomId) >>]

\* mutant of resetRoomTimer: the old timeout is not cleared
resetRoomTimer_noClear(st, roomId) ==
  IF roomId \notin DOMAIN st.rooms THEN st
  ELSE LET h == FreshHandle(st.timers)
       IN  [rooms     |-> [st.rooms EXCEPT ![roomId].expiresAt = now + TTL,
                                           ![roomId].timer = h],
            userRooms |-> st.userRooms,
            timers    |-> setTimeout(st.timers, h, roomId, TTL)]

\* mutant of resetRoomTimer: the countdown is re-armed, expiresAt keeps its value
resetRoomTimer_noExpiry(st, roomId) ==
  IF roomId \notin DOMAIN st.rooms THEN st
  ELSE LET room == st.rooms[roomId]
           h    == FreshHandle(st.timers)
       IN  [rooms     |-> [st.rooms EXCEPT ![roomId].timer = h],
            userRooms |-> st.userRooms,
            timers    |-> setTimeout(clearTimeout(st.timers, room.timer), h, roomId, TTL)]

\* resetRoomTimer(roomId)
resetRoomTimer(st, roomId) ==
  IF roomId \notin DOMAIN st.rooms THEN st
  ELSE LET room == st.rooms[roomId]
           h    == FreshHandle(st.timers)
       IN  [rooms     |-> [st.rooms EXCEPT ![roomId].expiresAt = now + TTL,
                                           ![roomId].timer = h],
            userRooms |-> st.userRooms,
            timers    |-> setTimeout(clearTimeout(st.timers, room.timer), h, roomId, TTL)]

\* Math.max(0, Math.ceil((room.expiresAt - Date.now()) / 60000))
minutesLeft(room) == Max(0, Ceil(room.expiresAt - now, MinuteMs))

\* sendUserRooms(userId) on socket s: rooms.get(roomId).users throws a
\* TypeError when the index names an id that is not in rooms
sendUserRooms(st, s, userId) ==
  IF userId \in DOMAIN st.userRooms
  THEN LET ids == st.userRooms[userId]
       IN  IF \E i \in 1..Len(ids) : ids[i] \notin DOMAIN st.rooms
           THEN [threw |-> TRUE, emits |-> << >>]
           ELSE [threw |-> FALSE,
                 emits |-> << Emit("user_rooms", {s},
                     [i \in 1..Len(ids) |->
                        [id |-> ids[i],
                         userCount |-> Cardinality(st.rooms[ids[i]].users)]]) >>]
  ELSE [threw |-> FALSE, emits |-> << Emit("user_rooms", {s}, << >>) >>]

\* generateRoomId(): two random letters and two random digits; RoomIds are
\* the ids of that shape the model draws
generateRoomId == RoomIds

\* the process is up and the run still takes client events
Accepting == ~crashed /\ now <= MaxTime /\ budget > 0

\* the state after construction: no room, no index entry, no timer; the
\* sockets are connected and have joined nothing
InitWith(events) ==
  /\ rooms = << >>
  /\ userRooms = << >>
  /\ timers = [h \in Handles |-> NoTimer]
  /\ now = 0
  /\ sockUser = [s \in Sockets |-> NoUser]
  /\ joined = [s \in Sockets |-> {}]
  /\ crashed = FALSE
  /\ ev = [type |-> "init"]
  /\ out = << >>
  /\ budget = events
  /\ lastActivity = << >>
  /\ subscribers = << >>

Init == InitWith(MaxEvents)

Commit(st) ==
  /\ rooms' = st.rooms
  /\ userRooms' = st.userRooms
  /\ timers' = st.timers

\* socket.on('register', userId => ...)
register(s, userId) ==
  /\ Accepting
  /\ LET r == sendUserRooms(State, s, userId)
     IN  /\ sockUser' = [sockUser EXCEPT ![s] = userId]
         /\ crashed' = r.threw
         /\ out' = r.emits
  /\ ev' = [type |-> "register", socket |-> s, userId |-> userId]
  /\ budget' = budget - 1
  /\ UNCHANGED <<rooms, userRooms, timers, now, joined, lastActivity, subscribers>>

\* mutant of roomExists: the handler never refuses
roomExists_never(roomId) == FALSE

\* if (rooms.has(roomId)) of create_room
roomExists(roomId) == roomId \in DOMAIN rooms

\* socket.on('create_room', ({ roomId, userIds }) => ...)
create_room(s, roomId, userIds) ==
  /\ Accepting
  /\ ev' = [type |-> "create_room", socket |-> s, roomId |-> roomId,
            userIds |-> userIds, ok |-> ~roomExists(roomId)]
  /\ IF roomExists(roomId)
     THEN /\ out' = << Emit("error", {s}, "AlreadyExists") >>
          /\ UNCHANGED <<rooms, userRooms, timers, lastActivity, subscribers>>
     ELSE /\ LET st == createRoom(State, roomId, userIds)
             IN  /\ Commit(st)
                 /\ out' = [i \in 1..Len(userIds) |->
                              Emit("room_created", To(userIds[i]),
                                   [id |-> roomId,
                                    userCount |-> Cardinality(st.rooms[roomId].users)])]
          /\ lastActivity' = MapSet(lastActivity, roomId, now)
          /\ subscribers' = MapSet(subscribers, roomId, {})
  /\ budget' = budget - 1
  /\ UNCHANGED <<now, sockUser, joined, crashed>>

\* socket.on('join_room', ({ roomId, userId }) => ...)
join_room(s, roomId, userId) ==
  /\ Accepting
  /\ ev' = [type |-> "join_room", socket |-> s, roomId |-> roomId,
            userId |-> userId, ok |-> roomId \in DOMAIN rooms,
            member |-> roomId \in DOMAIN rooms /\ userId \in rooms[roomId].users]
  /\ IF roomId \notin DOMAIN rooms
     THEN /\ out' = << Emit("error", {s}, "NotFound") >>
          /\ UNCHANGED <<rooms, userRooms, timers, joined, crashed, lastActivity, subscribers>>
     ELSE /\ LET added == IF userId \notin rooms[roomId].users
                          THEN [rooms     |-> [rooms EXCEPT ![roomId].users = @ \cup {userId}],
                                userRooms |-> addMembership(userRooms, userId, roomId),
                                timers    |-> timers]
                          ELSE State
                 st    == resetRoomTimer(added, roomId)
                 room  == st.rooms[roomId]
                 sent  == sendUserRooms(st, s, userId)
             IN  /\ Commit(st)
                 /\ joined' = [joined EXCEPT ![s] = @ \cup {roomId}]
                 /\ out' = << Emit("room_joined", {s},
                                   [id |-> roomId, userCount |-> Cardinality(room.users)]),
                              Emit("room_expiration", {s}, minutesLeft(room)) >>
                            \o sent.emits
                 /\ crashed' = sent.threw
          /\ lastActivity' = MapSet(lastActivity, roomId, now)
          /\ subscribers' = [subscribers EXCEPT ![roomId] = @ \cup {s}]
  /\ budget' = budget - 1
  /\ UNCHANGED <<now, sockUser>>

\* the first room of commonRooms with exactly the two users, or << >>
findTwoPartyRoom(userId, currentUserId) ==
  IF currentUserId \in DOMAIN userRooms /\ userId \in DOMAIN userRooms
  THEN LET commonRooms == SelectSeq(userRooms[currentUserId],
                                    LAMBDA r : r \in Range(userRooms[userId]))
           hits == SelectSeq(commonRooms,
                             LAMBDA r : /\ r \in DOMAIN rooms
                                        /\ Cardinality(rooms[r].users) = 2
                                        /\ currentUserId \in rooms[r].users
                                        /\ userId \in rooms[r].users)
       IN  IF hits = << >> THEN << >> ELSE << hits[1] >>
  ELSE << >>

\* socket.on('join_by_user', ({ userId, currentUserId }) => ...)
join_by_user(s, userId, currentUserId) ==
  /\ Accepting
  /\ LET existingRoom == findTwoPartyRoom(userId, currentUserId)
     IN  IF existingRoom # << >>
         THEN /\ out' = << Emit("room_joined", {s},
                                [id |-> existingRoom[1],
                                 userCount |-> Cardinality(rooms[existingRoom[1]].users)]) >>
              /\ ev' = [type |-> "join_by_user", socket |-> s, userId |-> userId,
                        currentUserId |-> currentUserId, created |-> FALSE,
                        roomId |-> existingRoom[1]]
              /\ UNCHANGED <<rooms, userRooms, timers, lastActivity, subscribers>>
         ELSE /\ \E roomId \in generateRoomId :
                   /\ Commit(createRoom(State, roomId, << currentUserId, userId >>))
                   /\ out' = << Emit("room_created", {s}, [id |-> roomId, userCount |-> 2]),
                                Emit("room_created", To(userId),
                                     [id |-> roomId, userCount |-> 2]) >>
                   /\ ev' = [type |-> "join_by_user", socket |-> s, userId |-> userId,
                             currentUserId |-> currentUserId, created |-> TRUE,
                             roomId |-> roomId]
                   /\ lastActivity' = MapSet(lastActivity, roomId, now)
                   /\ subscribers' = IF roomId \in DOMAIN rooms THEN subscribers
                                     ELSE MapSet(subscribers, roomId, {})
  /\ budget' = budget - 1
  /\ UNCHANGED <<now, sockUser, joined, crashed>>

\* mutant of sendCheck: membership is not checked
sendCheck_noMemberCheck(roomId, userId) ==
  IF roomId \notin DOMAIN rooms THEN "NotFound" ELSE "ok"

\* mutant of sendCheck: a missing room is reported as a membership failure
sendCheck_noFoundCheck(roomId, userId) ==
  IF roomId \in DOMAIN rooms /\ userId \in rooms[roomId].users THEN "ok"
  ELSE "NotMember"

\* the two early returns of send_message
sendCheck(roomId, userId) ==
  IF roomId \notin DOMAIN rooms THEN "NotFound"
  ELSE IF userId \notin rooms[roomId].users THEN "NotMember"
  ELSE "ok"

\* socket.on('send_message', ({ roomId, userId, message }) => ...)
send_message(s, roomId, userId, message) ==
  /\ Accepting
  /\ LET result == sendCheck(roomId, userId)
     IN  /\ ev' = [type |-> "send_message", socket |-> s, roomId |-> roomId,
                   userId |-> userId, message |-> message, ok |-> result = "ok"]
         /\ IF result # "ok"
            THEN /\ out' = << Emit("error", {s}, result) >>
                 /\ UNCHANGED <<rooms, userRooms, timers, lastActivity>>
            ELSE /\ LET pushed == [rooms     |-> [rooms EXCEPT ![roomId].messages =
                                       Append(@, [userId |-> userId, message |-> message])],
                                   userRooms |-> userRooms,
                                   timers    |-> timers]
                        st     == resetRoomTimer(pushed, roomId)
                    IN  /\ Commit(st)
                        /\ out' = << Emit("new_message", To(roomId),
                                          [roomId |-> roomId, userId |-> userId,
                                           message |-> message]),
                                     Emit("room_expiration", To(roomId),
                                          minutesLeft(st.rooms[roomId])) >>
                 /\ lastActivity' = MapSet(lastActivity, roomId, now)
  /\ budget' = budget - 1
  /\ UNCHANGED <<now, sockUser, joined, crashed, subscribers>>

\* socket.on('get_messages', roomId => ...)
get_messages(s, roomId) ==
  /\ Accepting
  /\ ev' = [type |-> "get_messages", socket |-> s, roomId |-> roomId]
  /\ out' = IF roomId \in DOMAIN rooms
            THEN << Emit("room_messages", {s},
                         [roomId |-> roomId, messages |-> rooms[roomId].messages]) >>
            ELSE << >>
  /\ budget' = budget - 1
  /\ UNCHANGED <<rooms, userRooms, timers, now, sockUser, joined, crashed, lastActivity,
               subscribers>>

\* socket.on('get_room_expiration', roomId => ...)
get_room_expiration(s, roomId) ==
  /\ Accepting
  /\ ev' = [type |-> "get_room_expiration", socket |-> s, roomId |-> roomId]
  /\ out' = IF roomId \in DOMAIN rooms
            THEN << Emit("room_expiration", {s}, minutesLeft(rooms[roomId])) >>
            ELSE << >>
  /\ budget' = budget - 1
  /\ UNCHANGED <<rooms, userRooms, timers, now, sockUser, joined, crashed, lastActivity,
               subscribers>>

\* the callback () => deleteRoom(roomId) of a timeout that has come due
timeout(h) ==
  /\ ~crashed
  /\ timers[h].pending
  /\ now >= timers[h].deadline
  /\ LET roomId == timers[h].roomId
         fired  == [rooms |-> rooms, userRooms |-> userRooms,
                    timers |-> clearTimeout(timers, h)]
         st     == deleteRoom(fired, roomId)
     IN  /\ Commit(st)
         /\ out' = st.emits
         /\ ev' = [type |-> "timeout", handle |-> h, roomId |-> roomId,
                   deleted |-> roomId \in DOMAIN rooms]
         /\ lastActivity' = MapDelete(lastActivity, roomId)
         /\ subscribers' = MapDelete(subscribers, roomId)
  /\ UNCHANGED <<now, sockUser, joined, crashed, budget>>

\* the clock advances; the event loop runs a due callback within one step
Tick ==
  /\ ~crashed
  /\ now < MaxTime \/ PendingOf(timers) # {}
  /\ \A h \in PendingOf(timers) : now < timers[h].deadline + TickMs
  /\ now' = now + TickMs
  /\ ev' = [type |-> "tick"]
  /\ out' = << >>
  /\ UNCHANGED <<rooms, userRooms, timers, sockUser, joined, crashed, budget, lastActivity,
               subscribers>>

\* the userIds arrays of create_room
UserIdLists == {<<"u1">>, <<"u1", "u1">>, <<"u1", "u2">>}

\* one client event of a socket of S, naming users of U, with a userIds array of L
ClientEvent(S, U, L) ==
  \/ \E s \in S, u \in U : register(s, u)
  \/ \E s \in S, r \in RoomIds, l \in L : create_room(s, r, l)
  \/ \E s \in S, r \in RoomIds, u \in U : join_room(s, r, u)
  \/ \E s \in S, u \in U, c \in U : join_by_user(s, u, c)
  \/ \E s \in S, r \in RoomIds, u \in U, m \in Texts : send_message(s, r, u, m)
  \/ \E s \in S, r \in RoomIds : get_messages(s, r)
  \/ \E s \in S, r \in RoomIds : get_room_expiration(s, r)

Next ==
  \/ ClientEvent(Sockets, UserIds, UserIdLists)
  \/ \E h \in Handles : timeout(h)
  \/ Tick

Spec == Init /\ [][Next]_vars

\* longer runs of one client
DeepNext ==
  \/ ClientEvent({"s1"}, UserIds, {<<"u1">>})
  \/ \E h \in Handles : timeout(h)
  \/ Tick

DeepInit == InitWith(DeepEvents)

DeepSpec == DeepInit /\ [][DeepNext]_vars

\* the event loop keeps running: the clock advances and due callbacks run
FairSpec == Spec /\ WF_vars(Tick) /\ \A h \in Handles : WF_vars(timeout(h))

FairDeepSpec == DeepSpec /\ WF_vars(Tick) /\ \A h \in Handles : WF_vars(timeout(h))

\* ------------------------------------------------------------------ claims
Live(i) == i \in DOMAIN rooms

InIndex(u, i) == u \in DOMAIN userRooms /\ i \in Range(userRooms[u])

Countdowns(i) == {h \in Handles : timers[h].pending /\ timers[h].roomId = i}

\* C1: the membership index and the room registry agree in both directions:
\* i is in userRooms[u] exactly when room i is live and u is in its users.
C1_IndexAgreesWithRegistry ==
  \A u \in UserIds, i \in RoomIds : InIndex(u, i) <=> (Live(i) /\ u \in rooms[i].users)

\* C2: a create_room whose roomId is live answers the AlreadyExists error to
\* the requesting socket only and changes no room, index entry or timer.
C2_DuplicateCreateRejected ==
  [][(ev'.type = "create_room" /\ Live(ev'.roomId)) =>
       /\ out' = << Emit("error", {ev'.socket}, "AlreadyExists") >>
       /\ rooms' = rooms
       /\ userRooms' = userRooms
       /\ timers' = timers]_vars

\* C2 witness: a create_room was refused on a room that has members and a log.
C2_Witness ==
  /\ ev.type = "create_room"
  /\ ~ev.ok
  /\ Live(ev.roomId)
  /\ rooms[ev.roomId].users # {}
  /\ rooms[ev.roomId].messages # << >>

\* C3: every live room id has exactly one pending countdown and every other
\* id has none.
C3_OneCountdownPerLiveRoom ==
  \A i \in RoomIds : Cardinality(Countdowns(i)) = IF Live(i) THEN 1 ELSE 0

\* C4: a countdown that deletes a live room fires no earlier than TTL after
\* the last activity (creation, join_room, send_message) on that room.
C4_DeletedOnlyAfterFullTTL ==
  [][(ev'.type = "timeout" /\ ev'.deleted) =>
       now >= lastActivity[ev'.roomId] + TTL]_vars

DeletedByCountdown(i) ==
  /\ ev.type = "timeout"
  /\ ev.roomId = i
  /\ ev.deleted
  /\ ~Live(i)
  /\ out = << Emit("room_deleted", To(i), i) >>

\* C5: a live room that gets no more activity is eventually deleted by its
\* countdown, which emits room_deleted for its id and removes it from the
\* registry; a send_message or join_room naming an id that is not live
\* answers the NotFound error.
C5_QuietRoomIsDeleted ==
  /\ \A i \in RoomIds : Live(i) ~> DeletedByCountdown(i)
  /\ [][(ev'.type \in {"send_message", "join_room"} /\ ~Live(ev'.roomId)) =>
          out' = << Emit("error", {ev'.socket}, "NotFound") >>]_vars

\* C6: join_room on a live room adds the user at most once (a user who is
\* already a member leaves users and the index as they were), and every such
\* call, member or not, cancels the room's pending countdown, arms a new
\* one and sets expiresAt to now + TTL.
C6_JoinIdempotentButResets ==
  [][(ev'.type = "join_room" /\ Live(ev'.roomId)) =>
       LET r == ev'.roomId
           u == ev'.userId
           h == rooms[r].timer
       IN  /\ rooms'[r].users = rooms[r].users \cup {u}
           /\ rooms'[r].messages = rooms[r].messages
           /\ \A v \in UserIds : \A i \in RoomIds :
                (v \in DOMAIN userRooms' /\ i \in Range(userRooms'[v]))
                  <=> (InIndex(v, i) \/ (v = u /\ i = r))
           /\ u \in rooms[r].users => userRooms' = userRooms
           /\ timers[h].pending /\ ~timers'[h].pending
           /\ rooms'[r].expiresAt = now + TTL
           /\ rooms'[r].timer # h
           /\ timers'[rooms'[r].timer] =
                [pending |-> TRUE, roomId |-> r, deadline |-> now + TTL]
           /\ \A g \in Handles \ {h, rooms'[r].timer} : timers'[g] = timers[g]]_vars

\* C6 witness: a join_room by a user who was already a member of the room
\* has re-armed the countdown later than the previous activity.
C6_Witness ==
  /\ ev.type = "join_room"
  /\ ev.ok
  /\ ev.member
  /\ now > 0
  /\ rooms[ev.roomId].expiresAt = now + TTL

\* C7: a send_message by a user who is not in the live room's users answers
\* the NotMember error to the requesting socket only and changes neither the
\* log, expiresAt, the countdown nor the index.
C7_NonMemberSendRejected ==
  [][(/\ ev'.type = "send_message"
      /\ Live(ev'.roomId)
      /\ ev'.userId \notin rooms[ev'.roomId].users) =>
       /\ out' = << Emit("error", {ev'.socket}, "NotMember") >>
       /\ rooms' = rooms
       /\ userRooms' = userRooms
       /\ timers' = timers]_vars

\* C7 witness: a non-member's send was refused while another socket is
\* subscribed to the room.
C7_Witness ==
  /\ ev.type = "send_message"
  /\ Live(ev.roomId)
  /\ ev.userId \notin rooms[ev.roomId].users
  /\ \E s \in Sockets \ {ev.socket} : ev.roomId \in joined[s]

\* C8: while a room id stays live its log changes only by a successful
\* send_message appending one message at the end.
C8_LogAppendOnly ==
  [][\A i \in RoomIds : (Live(i) /\ i \in DOMAIN rooms') =>
       \/ rooms'[i].messages = rooms[i].messages
       \/ /\ ev'.type = "send_message"
          /\ ev'.ok
          /\ ev'.roomId = i
          /\ rooms'[i].messages =
               Append(rooms[i].messages,
                      [userId |-> ev'.userId, message |-> ev'.message])]_vars

Received(s, event) == \E k \in 1..Len(out) : out[k].event = event /\ s \in out[k].to

\* C9: on a successful send_message the new_message event reaches the client
\* of every current member of the room.
C9_NewMessageReachesAllMembers ==
  (ev.type = "send_message" /\ ev.ok) =>
    \A s \in Sockets : sockUser[s] \in rooms[ev.roomId].users => Received(s, "new_message")

\* C10: on a successful create_room every invited user with a registered
\* client receives room_created with userCount = number of distinct members.
C10_RoomCreatedReachesInvited ==
  (ev.type = "create_room" /\ ev.ok) =>
    \A s \in Sockets : sockUser[s] \in Range(ev.userIds) =>
      \E k \in 1..Len(out) :
        /\ out[k].event = "room_created"
        /\ s \in out[k].to
        /\ out[k].payload = [id |-> ev.roomId,
                             userCount |-> Cardinality(Range(ev.userIds))]

\* C11: when a countdown deletes a live room, room_deleted with the room's id
\* reaches every connected client, subscribed to the room or not.
C11_RoomDeletedBroadcast ==
  (ev.type = "timeout" /\ ev.deleted) =>
    \A s \in Sockets :
      \E k \in 1..Len(out) :
        /\ out[k].event = "room_deleted"
        /\ out[k].payload = ev.roomId
        /\ s \in out[k].to

\* C12: right after deleteRoom removed a live room its id is in no user's
\* index entry, and no reachable state maps a user to an empty set.
C12_DeleteCleansIndex ==
  /\ [](\A u \in DOMAIN userRooms : userRooms[u] # << >>)
  /\ [][(ev'.type = "timeout" /\ ev'.deleted) =>
          \A u \in DOMAIN userRooms' : ev'.roomId \notin Range(userRooms'[u])]_vars

\* max(0, expiresAt - now) of a room object
remainingTTL(room, time) == Max(0, room.expiresAt - time)

\* the step just taken reset the countdown of id i: it created the room
\* object stored under i, or was a successful join_room or send_message on i
ResetOn(e, i) ==
  \/ e.type \in {"create_room", "join_room", "send_message"} /\ e.ok /\ e.roomId = i
  \/ e.type = "join_by_user" /\ e.created /\ e.roomId = i

\* C13: the remaining TTL of a live room lies in 0..TTL, equals TTL right
\* after every reset and does not increase in any other step; every
\* room_expiration payload is an integer in 0..5, and the one sent by
\* join_room or send_message is 5.
C13_RemainingTTL ==
  /\ [](\A i \in DOMAIN rooms : remainingTTL(rooms[i], now) \in 0..TTL)
  /\ [][\A i \in DOMAIN rooms' :
          IF ResetOn(ev', i)
          THEN remainingTTL(rooms'[i], now') = TTL
          ELSE /\ Live(i)
               /\ remainingTTL(rooms'[i], now') <= remainingTTL(rooms[i], now)]_vars
  /\ [][\A k \in 1..Len(out') :
          out'[k].event = "room_expiration" =>
            /\ out'[k].payload \in 0..ROOM_EXPIRATION_MINUTES
            /\ ev'.type \in {"join_room", "send_message"} =>
                 out'[k].payload = ROOM_EXPIRATION_MINUTES]_vars

\* C13 witness: a send_message reset a countdown that had run down for a
\* while, and a subscribed client was sent the new room_expiration.
C13_Witness ==
  /\ ev.type = "send_message"
  /\ ev.ok
  /\ now > 0
  /\ remainingTTL(rooms[ev.roomId], now) = TTL
  /\ \E k \in 1..Len(out) :
       /\ out[k].event = "room_expiration"
       /\ out[k].to # {}
       /\ out[k].payload = ROOM_EXPIRATION_MINUTES

\* the live room ids whose member set is exactly {a, b}
RoomsOfPair(a, b) == {i \in DOMAIN rooms : rooms[i].users = {a, b}}

\* C14: join_by_user creates a room exactly when no live room has member set
\* {userId, currentUserId}; the new room has those members and room_created
\* with its id reaches the requester and the clients of both users; otherwise
\* it answers room_joined with the id of the existing room and creates nothing.
C14_JoinByUserFindsOrCreates ==
  [][ev'.type = "join_by_user" =>
       LET a == ev'.userId
           b == ev'.currentUserId
           r == ev'.roomId
       IN  /\ ev'.created <=> RoomsOfPair(a, b) = {}
           /\ ev'.created =>
                /\ rooms'[r].users = {a, b}
                /\ \A s \in Sockets :
                     (s = ev'.socket \/ sockUser[s] \in {a, b}) =>
                       \E k \in 1..Len(out') :
                         /\ out'[k].event = "room_created"
                         /\ out'[k].payload.id = r
                         /\ s \in out'[k].to
           /\ ~ev'.created =>
                /\ r \in RoomsOfPair(a, b)
                /\ rooms' = rooms
                /\ \E k \in 1..Len(out') :
                     /\ out'[k].event = "room_joined"
                     /\ out'[k].payload.id = r
                     /\ out'[k].to = {ev'.socket}]_vars

\* C15: a join_room or send_message naming an id that is not live answers
\* the NotFound error to the requesting socket only and changes nothing: no
\* room, no index entry, no countdown, no subscription.
C15_MissingRoomRejected ==
  [][(ev'.type \in {"join_room", "send_message"} /\ ~Live(ev'.roomId)) =>
       /\ out' = << Emit("error", {ev'.socket}, "NotFound") >>
       /\ ~ev'.ok
       /\ rooms' = rooms
       /\ userRooms' = userRooms
       /\ timers' = timers
       /\ joined' = joined
       /\ crashed' = crashed]_vars

\* C15 witness: a send_message named an id that is not live while another
\* room is live, its countdown pending, and the sender has an index entry.
C15_Witness ==
  /\ ev.type = "send_message"
  /\ ~Live(ev.roomId)
  /\ out = << Emit("error", {ev.socket}, "NotFound") >>
  /\ rooms # << >>
  /\ PendingOf(timers) # {}
  /\ ev.userId \in DOMAIN userRooms

\* C16: when join_by_user's generated id is the id of a live room, creation
\* fails with AlreadyExists and the room, the index and the countdowns stay
\* as they were.
C16_CollisionRejected ==
  [][(ev'.type = "join_by_user" /\ ev'.created /\ Live(ev'.roomId)) =>
       /\ out' = << Emit("error", {ev'.socket}, "AlreadyExists") >>
       /\ rooms' = rooms
       /\ userRooms' = userRooms
       /\ timers' = timers]_vars

\* the user_rooms list the claim expects for user u
RoomsData(u) ==
  {[id |-> i, userCount |-> Cardinality(rooms[i].users)] :
     i \in {j \in DOMAIN rooms : u \in rooms[j].users}}

\* C17: register, and the refresh at the end of a successful join_room,
\* complete without error and answer user_rooms to the requesting socket,
\* listing exactly the live rooms that have the user as a member, each once
\* and with its member count.
C17_UserRoomsIsExact ==
  (ev.type = "register" \/ (ev.type = "join_room" /\ ev.ok)) =>
    /\ ~crashed
    /\ \E k \in 1..Len(out) :
         /\ out[k].event = "user_rooms"
         /\ out[k].to = {ev.socket}
         /\ Range(out[k].payload) = RoomsData(ev.userId)
         /\ Len(out[k].payload) = Cardinality(RoomsData(ev.userId))

\* C18: register, get_messages and get_room_expiration change no room, no
\* index entry and no countdown, and the countdown of every live room stays
\* armed: the process that holds it keeps running.
C18_ReadOnlyEvents ==
  [][ev'.type \in {"register", "get_messages", "get_room_expiration"} =>
       /\ rooms' = rooms
       /\ userRooms' = userRooms
       /\ timers' = timers
       /\ (\E i \in DOMAIN rooms : /\ timers[rooms[i].timer].pending
                                   /\ timers[rooms[i].timer].deadline > now)
            => ~crashed']_vars

\* C19: every room_created and room_joined payload names a live room and
\* carries that room's current member count.
C19_UserCountIsExact ==
  \A k \in 1..Len(out) :
    out[k].event \in {"room_created", "room_joined"} =>
      /\ Live(out[k].payload.id)
      /\ out[k].payload.userCount = Cardinality(rooms[out[k].payload.id].users)

\* C20: the new_message and room_expiration of a successful send_message go
\* only to sockets that ran a successful join_room on the room's id since
\* that id last became live.
C20_OnlyCurrentSubscribersReceive ==
  (ev.type = "send_message" /\ ev.ok) =>
    \A k \in 1..Len(out) :
      out[k].event \in {"new_message", "room_expiration"} =>
        out[k].to \subseteq subscribers[ev.roomId]

====
